---- MODULE Spec2Model ----
(***************************************************************************)
(* Model of the vgnr crate (src/src/lib.rs): the Vigenere cipher scheme    *)
(* over a caller-supplied alphabet.                                        *)
(*                                                                         *)
(* A char is its Unicode scalar value.  A String is a sequence of chars;   *)
(* String::len() is the UTF-8 byte length, chars() iterates the symbols.   *)
(* Rust arrays and iterators are 0-based, TLA+ sequences are 1-based: the  *)
(* operators below keep the source's 0-based indices and add 1 only when   *)
(* they subscript a sequence.                                              *)
(***************************************************************************)
EXTENDS Integers, Sequences, FiniteSets

(* ---------------------------------------------------------------------- *)
(* Bounds of the model                                                     *)
(* ---------------------------------------------------------------------- *)
MaxN == 3      \* largest alphabet size N
MaxKey == 2    \* largest key length, in symbols
MaxMsg == 2    \* largest message length, in symbols

\* The symbols callers draw from: 'a' (one UTF-8 byte) and U+00E9 (two
\* UTF-8 bytes).
Chars == {97, 233}

SeqsUpTo(S, n) == UNION {[1..k -> S] : k \in 0..n}

\* [char; N] with N >= 1, duplicates allowed
Alphabets == SeqsUpTo(Chars, MaxN) \ {<<>>}
Keys == SeqsUpTo(Chars, MaxKey)
Messages == SeqsUpTo(Chars, MaxMsg)

(* ---------------------------------------------------------------------- *)
(* Library semantics the source relies on                                  *)
(* ---------------------------------------------------------------------- *)
None == [some |-> FALSE, v |-> 0]
Some(x) == [some |-> TRUE, v |-> x]

\* char::len_utf8
Utf8Len(c) ==
    IF c < 128 THEN 1
    ELSE IF c < 2048 THEN 2
    ELSE IF c < 65536 THEN 3
    ELSE 4

\* String::len(): the number of bytes of the UTF-8 encoding
RECURSIVE StrLen(_)
StrLen(s) == IF s = <<>> THEN 0 ELSE Utf8Len(Head(s)) + StrLen(Tail(s))

\* s.chars().nth(n)
Nth(s, n) == IF n < Len(s) THEN Some(s[n + 1]) ELSE None

\* s.iter().position(|&x| x == c): 0-based index of the first match
Position(s, c) ==
    IF \E i \in 1..Len(s) : s[i] = c
    THEN Some((CHOOSE i \in 1..Len(s) :
                  s[i] = c /\ \A j \in 1..(i - 1) : s[j] # c) - 1)
    ELSE None

\* The outcome of a call: a returned String, or a panic with its message.
Ok(s) == [ok |-> TRUE, val |-> s, panic |-> ""]
Panic(msg) == [ok |-> FALSE, val |-> <<>>, panic |-> msg]

KeyMsg == "The key contains characters that are not in the Vigenere alphabet."
PlainMsg == "The plaintext contains characters that are not in the Vigenere alphabet."
CipherMsg == "The ciphertext contains characters that are not in the Vigenere alphabet."
UnwrapMsg == "called Option::unwrap() on a None value"
RemZeroMsg == "attempt to calculate the remainder with a divisor of zero"

(* ---------------------------------------------------------------------- *)
(* Vigenere::matrix                                                        *)
(* ---------------------------------------------------------------------- *)
\* The nested loops `for i in 0..N { for j in 0..N { ... } }` over the
\* array that starts as [['A'; N]; N], from the cell (i, j).
RECURSIVE MatrixLoop(_, _, _, _)
MatrixLoop(alphabet, i, j, matrix) ==
    LET N == Len(alphabet)
    IN  IF i >= N THEN matrix
        ELSE IF j >= N THEN MatrixLoop(alphabet, i + 1, 0, matrix)
        ELSE MatrixLoop(alphabet, i, j + 1,
                 [matrix EXCEPT ![i + 1][j + 1] = alphabet[((i + j) % N) + 1]])

\* The same table with every row one rotation too far (1-based arithmetic).
MatrixShifted(alphabet) ==
    LET N == Len(alphabet)
    IN  [i \in 1..N |-> [j \in 1..N |-> alphabet[((i + j) % N) + 1]]]

Matrix(alphabet) ==
    LET N == Len(alphabet)
    IN  MatrixLoop(alphabet, 0, 0, [i \in 1..N |-> [j \in 1..N |-> 65]])

(* ---------------------------------------------------------------------- *)
(* Vigenere::with_alphabet                                                 *)
(* ---------------------------------------------------------------------- *)
With_alphabet(key, alphabet) ==
    [alphabet |-> alphabet, matrix |-> Matrix(alphabet), key |-> key]

(* ---------------------------------------------------------------------- *)
(* Vigenere::pad_key                                                       *)
(* ---------------------------------------------------------------------- *)
\* The loop `for i in 0..message_len`, from iteration i with the padded key
\* built so far.
RECURSIVE PadKeyLoop(_, _, _, _)
PadKeyLoop(key, message_len, i, padded_key) ==
    LET key_len == StrLen(key)
    IN  IF i >= message_len THEN Ok(padded_key)
        ELSE IF key_len = 0 THEN Panic(RemZeroMsg)
        ELSE LET c == Nth(key, i % key_len)
             IN  IF ~c.some THEN Panic(UnwrapMsg)
                 ELSE PadKeyLoop(key, message_len, i + 1,
                                 Append(padded_key, c.v))

PadKeyGuarded(self, message) ==
    IF StrLen(self.key) = 0 THEN Panic(RemZeroMsg)
    ELSE PadKeyLoop(self.key, StrLen(message), 0, <<>>)

PadKeySkipEmpty(self, message) ==
    IF StrLen(self.key) = 0 THEN Ok(<<>>)
    ELSE PadKeyLoop(self.key, StrLen(message), 0, <<>>)

pad_key(self, message) == PadKeyLoop(self.key, StrLen(message), 0, <<>>)

(* ---------------------------------------------------------------------- *)
(* Vigenere::encrypt                                                       *)
(* ---------------------------------------------------------------------- *)
Min(a, b) == IF a < b THEN a ELSE b

\* The same loop with a key symbol that is not found taken as row 0.
RECURSIVE EncryptLoopDefaultRow(_, _, _, _, _)
EncryptLoopDefaultRow(self, plaintext, padded_key, i, ciphertext) ==
    IF i >= Min(Len(plaintext), Len(padded_key)) THEN Ok(ciphertext)
    ELSE LET p == plaintext[i + 1]
             k == padded_key[i + 1]
             row == Position(self.alphabet, k)
             col == Position(self.alphabet, p)
         IN  IF ~col.some THEN Panic(PlainMsg)
             ELSE EncryptLoopDefaultRow(self, plaintext, padded_key, i + 1,
                      Append(ciphertext,
                             self.matrix[(IF row.some THEN row.v ELSE 0) + 1]
                                        [col.v + 1]))

\* The loop over plaintext.chars().zip(padded_key.chars()), from the pair at
\* 0-based position i with the ciphertext built so far.
RECURSIVE EncryptLoop(_, _, _, _, _)
EncryptLoop(self, plaintext, padded_key, i, ciphertext) ==
    IF i >= Min(Len(plaintext), Len(padded_key)) THEN Ok(ciphertext)
    ELSE LET p == plaintext[i + 1]
             k == padded_key[i + 1]
             row == Position(self.alphabet, k)
             col == Position(self.alphabet, p)
         IN  IF ~row.some THEN Panic(KeyMsg)
             ELSE IF ~col.some THEN Panic(PlainMsg)
             ELSE EncryptLoop(self, plaintext, padded_key, i + 1,
                      Append(ciphertext, self.matrix[row.v + 1][col.v + 1]))

encrypt(self, plaintext) ==
    LET padded_key == pad_key(self, plaintext)
    IN  IF ~padded_key.ok THEN padded_key
        ELSE EncryptLoop(self, plaintext, padded_key.val, 0, <<>>)

(* ---------------------------------------------------------------------- *)
(* Vigenere::decrypt                                                       *)
(* ---------------------------------------------------------------------- *)
RECURSIVE DecryptLoop(_, _, _, _, _)
DecryptLoop(self, ciphertext, padded_key, i, plaintext) ==
    IF i >= Min(Len(ciphertext), Len(padded_key)) THEN Ok(plaintext)
    ELSE LET c == ciphertext[i + 1]
             k == padded_key[i + 1]
             row == Position(self.alphabet, k)
         IN  IF ~row.some THEN Panic(KeyMsg)
             ELSE LET col == Position(self.matrix[row.v + 1], c)
                  IN  IF ~col.some THEN Panic(CipherMsg)
                      ELSE DecryptLoop(self, ciphertext, padded_key, i + 1,
                               Append(plaintext, self.alphabet[col.v + 1]))

decrypt(self, ciphertext) ==
    LET padded_key == pad_key(self, ciphertext)
    IN  IF ~padded_key.ok THEN padded_key
        ELSE DecryptLoop(self, ciphertext, padded_key.val, 0, <<>>)

(* ---------------------------------------------------------------------- *)
(* State                                                                   *)
(* ---------------------------------------------------------------------- *)
VARIABLES
    args,   \* the key and alphabet the caller passed to with_alphabet
    self,   \* the Vigenere value: alphabet, matrix, key
    last,   \* the latest call on self: operation, argument, the key-stream
            \* pad_key built for it, outcome
    prev    \* what the caller holds from the call before the latest one

vars == <<args, self, last, prev>>

NoCall == [op |-> "none", input |-> <<>>, padded_key |-> Ok(<<>>),
           result |-> Ok(<<>>)]

\* Before any call, or when nothing of the call before is kept.
NoPrev == [status |-> "none", fed |-> FALSE, plaintext |-> <<>>]

Status(call) ==
    IF call.op = "none" THEN "none"
    ELSE IF call.result.ok THEN "ok" ELSE "panic"

Init ==
    \E key \in Keys, alphabet \in Alphabets :
        /\ args = [key |-> key, alphabet |-> alphabet]
        /\ self = With_alphabet(key, alphabet)
        /\ last = NoCall
        /\ prev = NoPrev

\* The same call on a scheme that consumes its key: the call rotates the
\* stored key by one symbol.
EncryptRotatingKey(plaintext) ==
    /\ last' = [op |-> "encrypt", input |-> plaintext,
                padded_key |-> pad_key(self, plaintext),
                result |-> encrypt(self, plaintext)]
    /\ prev' = [status |-> Status(last), fed |-> FALSE, plaintext |-> <<>>]
    /\ self' = IF Len(self.key) > 1 /\ plaintext # <<>>
               THEN [self EXCEPT !.key = Tail(self.key) \o <<Head(self.key)>>]
               ELSE self
    /\ UNCHANGED args

\* scheme.encrypt(plaintext): &self, nothing of the scheme is written.
Encrypt(plaintext) ==
    /\ last' = [op |-> "encrypt", input |-> plaintext,
                padded_key |-> pad_key(self, plaintext),
                result |-> encrypt(self, plaintext)]
    /\ prev' = [status |-> Status(last), fed |-> FALSE, plaintext |-> <<>>]
    /\ UNCHANGED <<args, self>>

\* scheme.decrypt(ciphertext): &self.  When the argument is the String the
\* preceding encrypt returned (lib.rs 32-36), prev keeps that plaintext.
Decrypt(ciphertext) ==
    /\ last' = [op |-> "decrypt", input |-> ciphertext,
                padded_key |-> pad_key(self, ciphertext),
                result |-> decrypt(self, ciphertext)]
    /\ prev' = IF last.op = "encrypt" /\ last.result.ok
                  /\ last.result.val = ciphertext
               THEN [status |-> "ok", fed |-> TRUE, plaintext |-> last.input]
               ELSE [status |-> Status(last), fed |-> FALSE,
                     plaintext |-> <<>>]
    /\ UNCHANGED <<args, self>>

Next ==
    \/ \E plaintext \in Messages : Encrypt(plaintext)
    \/ \E ciphertext \in Messages : Decrypt(ciphertext)

Spec == Init /\ [][Next]_vars

(* ---------------------------------------------------------------------- *)
(* Vocabulary of the properties                                            *)
(* ---------------------------------------------------------------------- *)
N == Len(self.alphabet)

InAlphabet(c) == \E i \in 1..N : self.alphabet[i] = c

AllInAlphabet(s) == \A i \in 1..Len(s) : InAlphabet(s[i])

NoDuplicates == \A i, j \in 1..N : i # j => self.alphabet[i] # self.alphabet[j]

\* index_of(alphabet, c): the least 0-based index holding c
IndexOf(c) ==
    CHOOSE i \in 0..(N - 1) :
        /\ self.alphabet[i + 1] = c
        /\ \A j \in 0..(N - 1) : self.alphabet[j + 1] = c => i <= j

\* the key symbol paired with the 0-based message position i
KeyAt(i) == self.key[(i % Len(self.key)) + 1]

RotateLeft(s) == IF s = <<>> THEN s ELSE Tail(s) \o <<Head(s)>>

Called == last.op # "none"

LookupMsgs == {KeyMsg, PlainMsg, CipherMsg}

(* ---------------------------------------------------------------------- *)
(* C4  Matrix construction                                                 *)
(* ---------------------------------------------------------------------- *)
\* C4: for every alphabet of size N >= 1, duplicates allowed, the matrix of
\* the scheme has matrix[i][j] = alphabet[(i + j) mod N] for all i, j in
\* 0..N-1; row 0 is the alphabet and every row i+1 is row i rotated left by
\* one position.
C4_MatrixConstruction ==
    N >= 1 =>
        /\ Len(self.matrix) = N
        /\ \A i \in 0..(N - 1) :
              /\ Len(self.matrix[i + 1]) = N
              /\ \A j \in 0..(N - 1) :
                    self.matrix[i + 1][j + 1] = self.alphabet[((i + j) % N) + 1]
        /\ self.matrix[1] = self.alphabet
        /\ \A i \in 1..(N - 1) :
              self.matrix[i + 1] = RotateLeft(self.matrix[i])

\* An alphabet of at least three symbols with a repeated symbol and two
\* different ones, whose rows therefore differ.
C4_Witness ==
    /\ N >= 3
    /\ ~NoDuplicates
    /\ self.matrix[2] # self.matrix[1]
    /\ self.matrix[3] # self.matrix[2]

(* ---------------------------------------------------------------------- *)
(* C5  Key expansion                                                       *)
(* ---------------------------------------------------------------------- *)
\* C5: for every non-empty key and every message over any alphabet, lengths
\* counted in symbols, the key-stream built for the message does not fail,
\* has exactly as many symbols as the message, and its symbol at every
\* position i is key[i mod key_length].
C5_KeyExpansion ==
    (Called /\ self.key # <<>>) =>
        /\ last.padded_key.ok
        /\ Len(last.padded_key.val) = Len(last.input)
        /\ \A i \in 0..(Len(last.input) - 1) :
              last.padded_key.val[i + 1] = KeyAt(i)

(* ---------------------------------------------------------------------- *)
(* C2  encrypt                                                             *)
(* ---------------------------------------------------------------------- *)
\* C2: for a non-empty key and a plaintext whose symbols are all in the
\* alphabet, encrypt returns a sequence of the plaintext's length whose
\* symbol at every position i is
\* matrix[index_of(key[i mod key_length])][index_of(plaintext[i])], which is
\* alphabet[(row + col) mod N]; with a key of length 1 every symbol is
\* shifted by the index of the key symbol.
C2_Encrypt ==
    (/\ last.op = "encrypt"
     /\ self.key # <<>>
     /\ AllInAlphabet(self.key)
     /\ AllInAlphabet(last.input)) =>
        /\ last.result.ok
        /\ Len(last.result.val) = Len(last.input)
        /\ \A i \in 0..(Len(last.input) - 1) :
              LET row == IndexOf(KeyAt(i))
                  col == IndexOf(last.input[i + 1])
              IN  /\ last.result.val[i + 1] = self.matrix[row + 1][col + 1]
                  /\ last.result.val[i + 1] =
                         self.alphabet[((row + col) % N) + 1]
        /\ Len(self.key) = 1 =>
              \A i \in 0..(Len(last.input) - 1) :
                  last.result.val[i + 1] =
                      self.alphabet[((IndexOf(self.key[1])
                                      + IndexOf(last.input[i + 1])) % N) + 1]

(* ---------------------------------------------------------------------- *)
(* C3  decrypt                                                             *)
(* ---------------------------------------------------------------------- *)
\* the first 0-based column of matrix[row] holding c
FirstColumn(row, c) ==
    CHOOSE col \in 0..(N - 1) :
        /\ self.matrix[row + 1][col + 1] = c
        /\ \A j \in 0..(N - 1) : self.matrix[row + 1][j + 1] = c => col <= j

\* C3: for a non-empty key of alphabet symbols and a ciphertext whose
\* symbols are all in the alphabet, duplicates in the alphabet allowed,
\* decrypt does not fail and returns a sequence of the ciphertext's length
\* whose symbol at every position i is alphabet[col], col being the first
\* column of matrix[index_of(key[i mod key_length])] that holds
\* ciphertext[i].
C3_Decrypt ==
    (/\ last.op = "decrypt"
     /\ self.key # <<>>
     /\ AllInAlphabet(self.key)
     /\ AllInAlphabet(last.input)) =>
        /\ last.result.ok
        /\ Len(last.result.val) = Len(last.input)
        /\ \A i \in 0..(Len(last.input) - 1) :
              LET row == IndexOf(KeyAt(i))
              IN  last.result.val[i + 1] =
                      self.alphabet[FirstColumn(row, last.input[i + 1]) + 1]

(* ---------------------------------------------------------------------- *)
(* C1  Round trip                                                          *)
(* ---------------------------------------------------------------------- *)
\* C1: for every alphabet without duplicate symbols, every non-empty key of
\* alphabet symbols and every message m of alphabet symbols, encrypt(m)
\* succeeds and decrypt of its output succeeds and returns m.
C1_RoundTrip ==
    (/\ NoDuplicates
     /\ self.key # <<>>
     /\ AllInAlphabet(self.key)) =>
        /\ (last.op = "encrypt" /\ AllInAlphabet(last.input)) =>
               last.result.ok
        /\ (last.op = "decrypt" /\ prev.fed /\ AllInAlphabet(prev.plaintext)) =>
               /\ last.result.ok
               /\ last.result.val = prev.plaintext

(* ---------------------------------------------------------------------- *)
(* C6  Membership precondition of encrypt                                  *)
(* ---------------------------------------------------------------------- *)
\* C6: for every message, encrypt fails with a lookup error and returns no
\* output whenever some symbol of the plaintext or some symbol of the key,
\* paired with a message position or not, is absent from the alphabet.
C6_Membership ==
    (/\ last.op = "encrypt"
     /\ (~AllInAlphabet(last.input) \/ ~AllInAlphabet(self.key))) =>
        /\ ~last.result.ok
        /\ last.result.val = <<>>

\* some 0-based position of the message holds a symbol outside the alphabet
\* or is paired with a key symbol outside the alphabet
UsedSymbolMissing ==
    \E i \in 0..(Len(last.input) - 1) :
        \/ ~InAlphabet(last.input[i + 1])
        \/ self.key # <<>> /\ ~InAlphabet(KeyAt(i))

\* C6 as amended: encrypt fails and returns no output whenever some symbol
\* of the plaintext, or some key symbol key[i mod key_length] paired with a
\* position i of the plaintext, is absent from the alphabet; the failure is
\* the lookup error unless the key-stream expansion has failed before any
\* lookup.
C6_MembershipOfUsedSymbols ==
    (last.op = "encrypt" /\ UsedSymbolMissing) =>
        /\ ~last.result.ok
        /\ last.result.val = <<>>
        /\ last.padded_key.ok => last.result.panic \in {KeyMsg, PlainMsg}

\* encrypt fails on a key symbol outside the alphabet although every symbol
\* of the plaintext is in the alphabet
C6_Witness ==
    /\ last.op = "encrypt"
    /\ last.input # <<>>
    /\ AllInAlphabet(last.input)
    /\ UsedSymbolMissing
    /\ last.result.panic = KeyMsg

(* ---------------------------------------------------------------------- *)
(* C7  What a lookup failure reports                                       *)
(* ---------------------------------------------------------------------- *)
Call(op, message) ==
    IF op = "encrypt" THEN encrypt(self, message) ELSE decrypt(self, message)

MissingAt(message, i) ==
    \/ ~InAlphabet(message[i + 1])
    \/ self.key # <<>> /\ ~InAlphabet(KeyAt(i))

\* the first offending 0-based position of the message and the symbols
\* met there
Offender(message) ==
    LET i == CHOOSE k \in 0..(Len(message) - 1) :
                 /\ MissingAt(message, k)
                 /\ \A j \in 0..(k - 1) : ~MissingAt(message, j)
    IN  <<i, message[i + 1], IF self.key # <<>> THEN KeyAt(i) ELSE 0>>

LookupFailure(message, result) ==
    /\ ~result.ok
    /\ result.panic \in LookupMsgs
    /\ \E i \in 0..(Len(message) - 1) : MissingAt(message, i)

\* C7: when encrypt or decrypt fails because a message or key symbol is not
\* in the alphabet, what is reported to the caller identifies the symbol and
\* the position that caused it, the first offending position of the
\* message: two such failures of the same operation on the same scheme with
\* the same report have the same offending position and symbols.
C7_FailureIdentifiesSymbol ==
    (Called /\ LookupFailure(last.input, last.result)) =>
        \A message \in Messages :
            LET result == Call(last.op, message)
            IN  (LookupFailure(message, result) /\ result = last.result) =>
                    Offender(message) = Offender(last.input)

(* ---------------------------------------------------------------------- *)
(* C8  Empty key                                                           *)
(* ---------------------------------------------------------------------- *)
\* C8: a key of zero length is rejected with an empty-key error; no scheme
\* built with an empty key ever returns an output from encrypt or decrypt,
\* for any message.
C8_EmptyKeyRejected ==
    (Called /\ args.key = <<>>) => ~last.result.ok

\* C8 as amended: a key of zero length is accepted by the constructor; on a
\* scheme built with it encrypt and decrypt of every non-empty message fail
\* with the remainder-by-zero panic of the key expansion and return no
\* output, and encrypt and decrypt of the empty message return the empty
\* output.
C8_EmptyKeyFailsOnNonEmptyMessage ==
    (Called /\ args.key = <<>>) =>
        /\ self.key = <<>>
        /\ last.input # <<>> =>
              /\ ~last.result.ok
              /\ last.result.val = <<>>
              /\ last.result.panic = RemZeroMsg
        /\ last.input = <<>> => last.result = Ok(<<>>)

\* a call with a non-empty message of alphabet symbols on a scheme built
\* with the empty key
C8_Witness ==
    /\ Called
    /\ args.key = <<>>
    /\ last.input # <<>>
    /\ AllInAlphabet(last.input)
    /\ ~last.result.ok

(* ---------------------------------------------------------------------- *)
(* C9  Immutability                                                        *)
(* ---------------------------------------------------------------------- *)
\* C9: after any sequence of encrypt and decrypt calls on one scheme,
\* failing calls included, the alphabet, matrix and key are those of
\* construction, and the latest call has returned exactly what the same call
\* returns on a freshly constructed scheme.
C9_Immutable ==
    LET fresh == With_alphabet(args.key, args.alphabet)
    IN  /\ self.alphabet = args.alphabet
        /\ self.key = args.key
        /\ self = fresh
        /\ last.op = "encrypt" => last.result = encrypt(fresh, last.input)
        /\ last.op = "decrypt" => last.result = decrypt(fresh, last.input)

\* a call that returns a non-empty output right after a call that failed,
\* on a key of two different symbols
C9_Witness ==
    /\ prev.status = "panic"
    /\ last.result.ok
    /\ last.result.val # <<>>
    /\ Len(self.key) > 1
    /\ self.key[1] # self.key[2]

(* ---------------------------------------------------------------------- *)
(* C10  Empty message                                                      *)
(* ---------------------------------------------------------------------- *)
\* C10: for every key, of any length and any symbols, in the alphabet or
\* not, encrypt and decrypt of the empty message succeed and return the
\* empty output.
C10_EmptyMessage ==
    (Called /\ last.input = <<>>) => last.result = Ok(<<>>)

\* the empty message on a scheme whose key is empty
C10_Witness ==
    /\ Called
    /\ last.input = <<>>
    /\ self.key = <<>>
    /\ last.result.ok

====
